---- MODULE Spec2Model ----
(***************************************************************************)
(* A model of the ParticipantList component                                *)
(* (src/src/components/ParticipantList/ParticipantList.tsx): the list's    *)
(* open/closed state and its onToggle effect, the role-change dialog       *)
(* (selectedPeer, selectedRole, forceChange), handleSaveSettings with its  *)
(* awaited hmsActions.changeRole call, the grouping of participants by     *)
(* role name, and the styler the component resolves its class names with.  *)
(*                                                                         *)
(* Every event handler is one action.  A handler is enabled whenever the   *)
(* element it is bound to can deliver the event: the guards are the        *)
(* `disabled` attributes and the conditional rendering of the source.      *)
(* The part of handleSaveSettings after `await` is a separate action per   *)
(* outcome of the promise (resolved, rejected).                            *)
(***************************************************************************)
EXTENDS Integers, Sequences, FiniteSets, Bags, TLC

\* ---------------------------------------------------------------- bounds
\* Most hmsActions.changeRole calls pending at once.
MaxInflight == 2
\* Most participants in a list handed to groupBy.
MaxPeers == 3

\* ---------------------------------------------------------------- values
\* peer.roleName is `string | undefined`: a defined role carries its name.
UndefinedRole == [defined |-> FALSE, name |-> ""]
Role(n) == [defined |-> TRUE, name |-> n]

\* Role names the store offers to the select (selectAvailableRoleNames).
roleNames == {"host", "guest"}
\* Role values of the peers shown by the stateful specification.
PeerRoles == {UndefinedRole} \cup {Role(n) : n \in roleNames}
\* Ids of the two peers of the stateful specification, in list order.
PeerIds == <<"a", "b">>

\* useState<HMSPeer | null>(null): the null value of selectedPeer.
NullPeer == [id |-> "null", roleName |-> UndefinedRole]

\* selectLocalPeerRole: no role at all, or a role with its changeRole permission.
LocalRoles ==
    { [present |-> FALSE, changeRole |-> FALSE],
      [present |-> TRUE, changeRole |-> FALSE],
      [present |-> TRUE, changeRole |-> TRUE] }

\* error.message of a rejected changeRole promise.
ErrorMessages == {"e1", "e2"}

\* Role values of the peers handed to groupBy: no role, two ordinary names and
\* the name that spells the key lodash gives to a missing role.
GroupRoles == {UndefinedRole, Role("host"), Role("guest"), Role("undefined")}

\* Slots a class map may define, the slots looked up through a styler, and the
\* class strings each of the three maps may hold for a slot.
StyledSlots == {"menuItem", "onIcon"}
LookupSlots == StyledSlots \cup {"root"}
DefaultValues == {"d", ""}
CustomValues == {"k"}
CallerValues == {"u", ""}

VARIABLES
    mounted,         \* the component has rendered and run its effects once
    hasOnToggle,     \* the onToggle prop is given
    listOpen,        \* useState(false), line 97
    onToggleCalls,   \* arguments of the onToggle calls the last step made, in order
    participantList, \* the peers listed (prop or store), in list order
    localPeerRole,   \* useHMSStore(selectLocalPeerRole)
    selectedPeer,    \* useState<HMSPeer | null>(null), line 106
    selectedRole,    \* useState<string>(''), line 110
    forceChange,     \* useState(false), line 111
    inflight,        \* bag of changeRole calls whose promise is pending
    toastCalls,      \* arguments of the toast calls the last step made, in order
    propagated,      \* some handleSaveSettings promise was rejected
    lastOp,          \* the handler that ran last
    lastArg,         \* its inputs (peer id, role value, error message) and,
                     \* for a settled call, the dialog state it found
    rolesMap,        \* groupBy result: String(roleName) -> peers, line 101
    roles,           \* Object.keys(rolesMap), line 105
    classMaps,       \* the (default, custom, caller) class maps of a styler
    slot,            \* the slot looked up
    className,       \* the class string the lookup returned
    tileProps,       \* the props a VideoTile is rendered with
    boxShadow,       \* videoStyle['boxShadow'] of the tile's video element
    controlsProps    \* the props the tile's VideoTileControls element gets

dialogVars == <<selectedPeer, selectedRole, forceChange>>
sdkVars == <<inflight, propagated>>
listVars == <<listOpen>>
storeVars == <<participantList, localPeerRole>>
tileVars == <<tileProps, boxShadow, controlsProps>>
pureVars == <<rolesMap, roles, classMaps, slot, className, tileVars>>
vars == <<mounted, hasOnToggle, listOpen, onToggleCalls, participantList,
          localPeerRole, selectedPeer, selectedRole, forceChange, inflight,
          toastCalls, propagated, lastOp, lastArg, rolesMap, roles,
          classMaps, slot, className, tileProps, boxShadow, controlsProps>>

\* ------------------------------------------------------- derived values
\* !!selectedPeer, the dialog's `open` prop (line 152).
DialogOpen == selectedPeer # NullPeer

\* localPeerRole?.permissions?.changeRole (lines 132, 193).
ChangeRolePermitted == localPeerRole.present /\ localPeerRole.changeRole

\* The select's `disabled` attribute (line 193).
SelectDisabled == ~ChangeRolePermitted

\* The checkbox's `disabled` attribute (lines 210-214).
CheckboxDisabled ==
    \/ selectedPeer = NullPeer
    \/ selectedRole = ""
    \/ (selectedPeer.roleName.defined /\ selectedRole = selectedPeer.roleName.name)

\* participant.peer.roleName || '' (line 276).
RoleNameOrEmpty(p) ==
    IF p.roleName.defined /\ p.roleName.name # "" THEN p.roleName.name ELSE ""

\* ------------------------------------------------------------ the list
\* useEffect(() => { if (onToggle) onToggle(listOpen) }, [listOpen]) after a
\* render in which listOpen went from `prev` to listOpen' (lines 113-117).
OnToggleEffect(prev) ==
    onToggleCalls' = IF hasOnToggle /\ listOpen' # prev THEN <<listOpen'>> ELSE <<>>

\* The first render: every effect runs once, whatever its dependencies.
MountEffect ==
    onToggleCalls' = IF hasOnToggle THEN <<listOpen>> ELSE <<>>

\* A step that calls neither onToggle nor toast.
NoCalls == onToggleCalls' = <<>> /\ toastCalls' = <<>>

Mount ==
    /\ ~mounted
    /\ mounted' = TRUE
    /\ MountEffect
    /\ toastCalls' = <<>>
    /\ lastOp' = "mount" /\ lastArg' = <<>>
    /\ UNCHANGED <<hasOnToggle, listOpen, storeVars, dialogVars, sdkVars, pureVars>>

\* setListOpen(open => !open), line 99, and the effect of the render it causes.
handleClick ==
    /\ mounted
    /\ listOpen' = ~listOpen
    /\ OnToggleEffect(listOpen)
    /\ toastCalls' = <<>>
    /\ lastOp' = "handleClick" /\ lastArg' = <<>>
    /\ UNCHANGED <<mounted, hasOnToggle, storeVars, dialogVars, sdkVars, pureVars>>

\* setListOpen(false), line 100 (ClickAwayListener's onClickAway, line 228).
handleClose ==
    /\ mounted
    /\ listOpen' = FALSE
    /\ OnToggleEffect(listOpen)
    /\ toastCalls' = <<>>
    /\ lastOp' = "handleClose" /\ lastArg' = <<>>
    /\ UNCHANGED <<mounted, hasOnToggle, storeVars, dialogVars, sdkVars, pureVars>>

\* ---------------------------------------------------------- the dialog
\* Mutant: the callback forgets setSelectedRole (line 276).
onUserSettingsClickKeepRole(p) ==
    /\ selectedPeer' = p
    /\ UNCHANGED <<selectedRole, forceChange, listOpen>>

\* The callback handed to ParticipantInList for participant p (lines 274-277).
onUserSettingsClick(p) ==
    /\ selectedPeer' = p
    /\ selectedRole' = RoleNameOrEmpty(p)
    /\ UNCHANGED <<forceChange, listOpen>>

\* The settings action of the i-th row invokes the callback of that row.  The
\* rows are rendered only while the list is open (line 248), one per
\* participant (lines 267-279).
SettingsAction(i) ==
    /\ mounted
    /\ listOpen
    /\ i \in 1..Len(participantList)
    /\ onUserSettingsClick(participantList[i])
    /\ OnToggleEffect(listOpen)
    /\ toastCalls' = <<>>
    /\ lastOp' = "onUserSettingsClick" /\ lastArg' = <<participantList[i].id>>
    /\ UNCHANGED <<mounted, hasOnToggle, storeVars, sdkVars, pureVars>>

\* setSelectedRole(event.currentTarget.value), lines 124-126; the values are
\* the select's options (lines 195-200); a disabled select sends no change.
handleInputChange(v) ==
    /\ mounted
    /\ ~SelectDisabled
    /\ v \in {""} \cup roleNames
    /\ selectedRole' = v
    /\ NoCalls
    /\ lastOp' = "handleInputChange" /\ lastArg' = <<v>>
    /\ UNCHANGED <<mounted, hasOnToggle, listVars, storeVars, selectedPeer,
                   forceChange, sdkVars, pureVars>>

\* The checkbox's onChange: setForceChange(prev => !prev), lines 206-215.
toggleForceChange ==
    /\ mounted
    /\ ~CheckboxDisabled
    /\ forceChange' = ~forceChange
    /\ NoCalls
    /\ lastOp' = "toggleForceChange" /\ lastArg' = <<>>
    /\ UNCHANGED <<mounted, hasOnToggle, listVars, storeVars, selectedPeer,
                   selectedRole, sdkVars, pureVars>>

\* Lines 119-122: the dialog's onClose (line 153) and its close button (line 172).
handleRoleChangeClose ==
    /\ mounted
    /\ selectedPeer' = NullPeer
    /\ forceChange' = FALSE
    /\ NoCalls
    /\ lastOp' = "handleRoleChangeClose" /\ lastArg' = <<>>
    /\ UNCHANGED <<mounted, hasOnToggle, listVars, storeVars, selectedRole,
                   sdkVars, pureVars>>

\* ------------------------------------------------- handleSaveSettings
\* Mutant: the early return forgets the permission (line 132).
SaveGuardFailsNoPermission ==
    \/ selectedPeer = NullPeer
    \/ selectedRole = ""

\* Mutant: the handler tracks its pending call and returns while one is awaited.
SaveGuardFailsWhilePending ==
    \/ selectedPeer = NullPeer
    \/ selectedRole = ""
    \/ ~ChangeRolePermitted
    \/ inflight # EmptyBag

\* The early return's condition (lines 129-133).
SaveGuardFails ==
    \/ selectedPeer = NullPeer
    \/ selectedRole = ""
    \/ ~ChangeRolePermitted

\* Mutant: the comparison of line 137 is dropped, every save calls the SDK.
RoleDiffersAlways == TRUE

\* selectedPeer.roleName !== selectedRole (line 137).
RoleDiffers ==
    ~(selectedPeer.roleName.defined /\ selectedPeer.roleName.name = selectedRole)

\* Mutant: the call of line 139 drops its third argument.
ChangeRoleArgsNoForce ==
    [peerId |-> selectedPeer.id, role |-> selectedRole, force |-> FALSE]

\* The arguments of hmsActions.changeRole (line 139).
ChangeRoleArgs ==
    [peerId |-> selectedPeer.id, role |-> selectedRole, force |-> forceChange]

\* Mutant: the handler also closes the list when it ends.
ResetDialogClosingList ==
    /\ selectedPeer' = NullPeer
    /\ forceChange' = FALSE
    /\ listOpen' = FALSE
    /\ UNCHANGED selectedRole

\* Mutant: the handler forgets setForceChange(false) (line 146).
ResetDialogKeepForce ==
    /\ selectedPeer' = NullPeer
    /\ UNCHANGED <<forceChange, selectedRole, listOpen>>

\* Lines 145-146: the two setters the handler ends with.
ResetDialog ==
    /\ selectedPeer' = NullPeer
    /\ forceChange' = FALSE
    /\ UNCHANGED <<selectedRole, listOpen>>

\* Mutant: no catch block, the rejection leaves the handler.
CatchErrorRethrow(msg) ==
    /\ toastCalls' = <<>>
    /\ propagated' = TRUE

\* catch (error) { toast(error.message) }, lines 140-142: the handler goes on.
CatchError(msg) ==
    /\ toastCalls' = <<msg>>
    /\ UNCHANGED propagated

\* A click on Confirm (line 224): the handler up to its return or its await.
handleSaveSettings ==
    /\ mounted
    /\ lastOp' = "handleSaveSettings" /\ lastArg' = <<selectedPeer.id>>
    /\ \/ /\ SaveGuardFails
          /\ UNCHANGED <<dialogVars, listOpen, sdkVars>>
       \/ /\ ~SaveGuardFails
          /\ ~RoleDiffers
          /\ ResetDialog
          /\ UNCHANGED sdkVars
       \/ /\ ~SaveGuardFails
          /\ RoleDiffers
          /\ BagCardinality(inflight) < MaxInflight
          /\ inflight' = inflight (+) SetToBag({ChangeRoleArgs})
          /\ UNCHANGED <<dialogVars, listOpen, propagated>>
    /\ OnToggleEffect(listOpen)
    /\ toastCalls' = <<>>
    /\ UNCHANGED <<mounted, hasOnToggle, storeVars, pureVars>>

\* What lines 145-146 overwrite when they run after the await: the peer the
\* dialog is open for ("null" when closed) and the skip-confirmation flag.
FoundOpen == <<selectedPeer.id, IF forceChange THEN "force" ELSE "">>

\* Mutant: the continuation resets the dialog only if it still shows the peer
\* the call was made for.
changeRoleResolvedForSubmitter(req) ==
    /\ BagIn(req, inflight)
    /\ inflight' = inflight (-) SetToBag({req})
    /\ IF selectedPeer.id = req.peerId
       THEN ResetDialog
       ELSE UNCHANGED <<dialogVars, listOpen>>
    /\ OnToggleEffect(listOpen)
    /\ toastCalls' = <<>>
    /\ lastOp' = "changeRoleResolved" /\ lastArg' = <<req.peerId, "">> \o FoundOpen
    /\ UNCHANGED <<mounted, hasOnToggle, storeVars, propagated, pureVars>>

\* The awaited changeRole promise of call `req` resolves: lines 145-146.
changeRoleResolved(req) ==
    /\ BagIn(req, inflight)
    /\ inflight' = inflight (-) SetToBag({req})
    /\ ResetDialog
    /\ OnToggleEffect(listOpen)
    /\ toastCalls' = <<>>
    /\ lastOp' = "changeRoleResolved" /\ lastArg' = <<req.peerId, "">> \o FoundOpen
    /\ UNCHANGED <<mounted, hasOnToggle, storeVars, propagated, pureVars>>

\* The awaited changeRole promise of call `req` rejects with an error whose
\* message is msg: lines 140-142, then 145-146.
changeRoleRejected(req, msg) ==
    /\ BagIn(req, inflight)
    /\ inflight' = inflight (-) SetToBag({req})
    /\ CatchError(msg)
    /\ ResetDialog
    /\ OnToggleEffect(listOpen)
    /\ lastOp' = "changeRoleRejected" /\ lastArg' = <<req.peerId, msg>> \o FoundOpen
    /\ UNCHANGED <<mounted, hasOnToggle, storeVars, pureVars>>

\* ------------------------------------------------------------ the store
\* The store notifies a new role of the local peer (line 109) and the
\* component renders again.
storeUpdate(l) ==
    /\ mounted
    /\ l \in LocalRoles
    /\ localPeerRole' = l
    /\ NoCalls
    /\ lastOp' = "storeUpdate" /\ lastArg' = <<>>
    /\ UNCHANGED <<mounted, hasOnToggle, listVars, participantList, dialogVars,
                   sdkVars, pureVars>>

\* ------------------------------------------------------------ grouping
\* The key lodash's groupBy files a participant under: the iteratee's value
\* (line 103) used as a property name, so a missing role becomes "undefined".
RoleKey(p) == IF p.roleName.defined THEN p.roleName.name ELSE "undefined"

\* One step of groupBy: the participant is appended to the array under its
\* key, which is created when it is the key's first participant.
FileUnder(acc, p) ==
    IF RoleKey(p) \in DOMAIN acc
    THEN [acc EXCEPT ![RoleKey(p)] = Append(@, p)]
    ELSE acc @@ (RoleKey(p) :> <<p>>)

\* groupBy(participantList, participant => participant.peer.roleName),
\* lines 101-104: the participants are filed from first to last.
RECURSIVE groupBy(_)
groupBy(list) ==
    IF list = <<>> THEN <<>>
    ELSE FileUnder(groupBy(SubSeq(list, 1, Len(list) - 1)), list[Len(list)])

\* Object.keys(rolesMap), line 105: the keys in the order they were created
\* (none of the role names is an array index).
RECURSIVE ObjectKeys(_)
ObjectKeys(list) ==
    IF list = <<>> THEN <<>>
    ELSE LET before == ObjectKeys(SubSeq(list, 1, Len(list) - 1))
             k == RoleKey(list[Len(list)])
         IN IF \E i \in 1..Len(before) : before[i] = k THEN before
            ELSE Append(before, k)

\* The section header of a group (lines 263-264): its label and its count.
HeaderLabel(role) == IF role = "undefined" THEN "Unknown" ELSE role
HeaderCount(role) == Len(rolesMap[role])

\* The lists handed to groupBy: up to MaxPeers peers, each with any role.
GroupLists ==
    { [i \in 1..Len(f) |-> [id |-> ToString(i), roleName |-> f[i]]] :
        f \in UNION { [1..m -> GroupRoles] : m \in 0..MaxPeers } }

\* A render with participant list `list`: lines 98-105.
renderGroups(list) ==
    /\ Len(list) \in 0..MaxPeers
    /\ participantList' = list
    /\ rolesMap' = groupBy(list)
    /\ roles' = ObjectKeys(list)
    /\ lastOp' = "renderGroups" /\ lastArg' = <<>>
    /\ UNCHANGED <<mounted, hasOnToggle, listOpen, onToggleCalls, localPeerRole,
                   dialogVars, sdkVars, toastCalls, classMaps, slot, className,
                   tileVars>>

\* -------------------------------------------------------------- styler
\* A class map: some of the slots, each with a class string.
ClassMapsOver(values) == UNION { [D -> values] : D \in SUBSET StyledSlots }
NoClassMaps == [default |-> <<>>, custom |-> <<>>, caller |-> <<>>]

\* The lookup function hmsUiClassParserGenerator returns for the three maps:
\* the caller's class of the slot, else the custom one, else the default one,
\* else the empty string.
hmsUiClassParserGenerator(maps, s) ==
    LET merged == maps.caller @@ maps.custom @@ maps.default
    IN IF s \in DOMAIN merged THEN merged[s] ELSE ""

\* Mutant: the component hands its maps over in the wrong places, the
\* caller's classes as defaults and the defaults as the caller's.
stylerSwapped(s) ==
    hmsUiClassParserGenerator(
        [default |-> classMaps.caller, custom |-> classMaps.custom,
         caller |-> classMaps.default], s)

\* The component's styler (lines 85-95): the generator applied to the `classes`
\* prop, customClasses and defaultClasses.
styler(s) ==
    hmsUiClassParserGenerator(
        [default |-> classMaps.default, custom |-> classMaps.custom,
         caller |-> classMaps.caller], s)

\* The styler ParticipantInList uses: the `styler` prop, which ParticipantList
\* sets to its own styler (line 271), or () => '' when the prop is not given.
ParticipantInListStyler(given, s) == IF given THEN styler(s) ELSE ""

\* ParticipantList looks slot s up (e.g. styler('root'), line 229).
stylerLookup(s) ==
    /\ slot' = s
    /\ className' = styler(s)
    /\ lastOp' = "styler" /\ lastArg' = <<s>>
    /\ UNCHANGED <<mounted, hasOnToggle, listOpen, onToggleCalls, storeVars,
                   dialogVars, sdkVars, toastCalls, rolesMap, roles, classMaps,
                   tileVars>>

\* ParticipantInList looks slot s up (e.g. styler('menuItem')), with or
\* without a styler prop.
ParticipantInListLookup(given, s) ==
    /\ slot' = s
    /\ className' = ParticipantInListStyler(given, s)
    /\ lastOp' = "ParticipantInList"
    /\ lastArg' = <<s, IF given THEN "prop" ELSE "default">>
    /\ UNCHANGED <<mounted, hasOnToggle, listOpen, onToggleCalls, storeVars,
                   dialogVars, sdkVars, toastCalls, rolesMap, roles, classMaps,
                   tileVars>>

\* ---------------------------------------------------------- video tile
\* An optional prop: omitted, or given with a value.
Omitted(v) == [given |-> FALSE, value |-> v]
Given(v) == [given |-> TRUE, value |-> v]
\* A destructuring default (VideoTile/index.tsx lines 153-164).
OrDefault(p, d) == IF p.given THEN p.value ELSE d

OptionalBooleans == {Omitted(FALSE), Given(FALSE), Given(TRUE)}
\* audioLevel?: number (line 45): omitted, silent, or some volume.
AudioLevels == {Omitted(0), Given(0), Given(50)}
\* audioLevelDisplayType?: AudioLevelDisplayType (lines 66-70).
AudioLevelDisplayTypes ==
    {Omitted(""), Given("border"), Given("inline-wave"), Given("inline-circle")}

\* The props of VideoTile the audio level display depends on (lines 150-170).
VideoTileProps ==
    [isAudioMuted : OptionalBooleans,
     showAudioLevel : OptionalBooleans,
     audioLevel : AudioLevels,
     audioLevelDisplayType : AudioLevelDisplayTypes,
     controlsComponent : BOOLEAN]

\* The props after the defaults of lines 155-163; audioLevel has none.
isAudioMutedOf(p) == OrDefault(p.isAudioMuted, FALSE)
showAudioLevelOf(p) == OrDefault(p.showAudioLevel, TRUE)
audioLevelDisplayTypeOf(p) == OrDefault(p.audioLevelDisplayType, "border")

\* `audioLevel &&` of line 127: undefined and 0 are falsy.
Truthy(level) == level.given /\ level.value # 0

\* Shadows: undefined, or two blurs of 0.12 and 0.8 times the level, held in
\* hundredths of a pixel (lines 129-130).
UndefinedShadow == [set |-> FALSE, inner |-> 0, outer |-> 0]
Glow(level) == [set |-> TRUE, inner |-> 12 * level, outer |-> 80 * level]

\* videoStyle['boxShadow'] of getVideoStyles (lines 124-131).
getVideoStyles(isAudioMuted, showAudioLevel, audioLevel, audioLevelDisplayType) ==
    IF ~isAudioMuted /\ showAudioLevel /\ Truthy(audioLevel)
       /\ audioLevelDisplayType = "border"
    THEN Glow(audioLevel.value)
    ELSE UndefinedShadow

\* Mutant: the controls show the level whatever the display type.
controlsShowAudioLevelAnyType(showAudioLevel, audioLevelDisplayType) ==
    showAudioLevel

\* The showAudioLevel prop of VideoTileControls (line 224).
controlsShowAudioLevel(showAudioLevel, audioLevelDisplayType) ==
    showAudioLevel /\ audioLevelDisplayType # "border"

\* What the tile renders over the video: the caller's controlsComponent, or
\* VideoTileControls with these props (lines 215-228).
NoControls ==
    [rendered |-> FALSE, isAudioMuted |-> FALSE, showAudioLevel |-> FALSE,
     audioLevelDisplayType |-> "", audioLevel |-> Omitted(0)]
VideoTileControls(p) ==
    IF p.controlsComponent
    THEN NoControls
    ELSE [rendered |-> TRUE,
          isAudioMuted |-> isAudioMutedOf(p),
          showAudioLevel |->
              controlsShowAudioLevel(showAudioLevelOf(p), audioLevelDisplayTypeOf(p)),
          audioLevelDisplayType |-> audioLevelDisplayTypeOf(p),
          audioLevel |-> p.audioLevel]

\* The video element's shadow: Video gets the defaulted props (lines 203-206).
Video(p) ==
    getVideoStyles(isAudioMutedOf(p), showAudioLevelOf(p), p.audioLevel,
                   audioLevelDisplayTypeOf(p))

\* No tile is rendered.
NoTile ==
    /\ tileProps = [isAudioMuted |-> Omitted(FALSE), showAudioLevel |-> Omitted(FALSE),
                    audioLevel |-> Omitted(0), audioLevelDisplayType |-> Omitted(""),
                    controlsComponent |-> TRUE]
    /\ boxShadow = UndefinedShadow
    /\ controlsProps = NoControls

\* A render of VideoTile with props p (lines 150-231).
VideoTile(p) ==
    /\ tileProps' = p
    /\ boxShadow' = Video(p)
    /\ controlsProps' = VideoTileControls(p)
    /\ lastOp' = "VideoTile" /\ lastArg' = <<>>
    /\ UNCHANGED <<mounted, hasOnToggle, listOpen, onToggleCalls, storeVars,
                   dialogVars, sdkVars, toastCalls, rolesMap, roles, classMaps,
                   slot, className>>

\* -------------------------------------------------------- specification
\* The state every specification starts from, but for its own inputs.
Unmounted ==
    /\ mounted = FALSE
    /\ listOpen = FALSE
    /\ onToggleCalls = <<>>
    /\ selectedPeer = NullPeer
    /\ selectedRole = ""
    /\ forceChange = FALSE
    /\ inflight = EmptyBag
    /\ toastCalls = <<>>
    /\ propagated = FALSE
    /\ lastOp = "init" /\ lastArg = <<>>
    /\ slot = ""
    /\ className = ""

\* The lists of the stateful specification: peers a and b, each with any role.
\* The list is the `participantList` prop (line 98) and stays as given.
InitialLists ==
    { <<[id |-> PeerIds[1], roleName |-> r1], [id |-> PeerIds[2], roleName |-> r2]>> :
        r1 \in PeerRoles, r2 \in PeerRoles }

Init ==
    /\ Unmounted
    /\ hasOnToggle \in BOOLEAN
    /\ participantList \in InitialLists
    /\ localPeerRole \in LocalRoles
    /\ rolesMap = groupBy(participantList)
    /\ roles = ObjectKeys(participantList)
    /\ classMaps = NoClassMaps
    /\ NoTile

Next ==
    \/ Mount
    \/ handleClick
    \/ handleClose
    \/ \E i \in 1..Len(participantList) : SettingsAction(i)
    \/ \E v \in {""} \cup roleNames : handleInputChange(v)
    \/ toggleForceChange
    \/ handleRoleChangeClose
    \/ handleSaveSettings
    \/ \E req \in BagToSet(inflight) : changeRoleResolved(req)
    \/ \E req \in BagToSet(inflight), msg \in ErrorMessages : changeRoleRejected(req, msg)
    \/ \E l \in LocalRoles : storeUpdate(l)

Spec == Init /\ [][Next]_vars

\* Grouping: the component is rendered with a list, then with other lists.
InitGroup ==
    /\ Unmounted
    /\ hasOnToggle = FALSE
    /\ participantList \in GroupLists
    /\ localPeerRole \in {l \in LocalRoles : ~l.present}
    /\ rolesMap = groupBy(participantList)
    /\ roles = ObjectKeys(participantList)
    /\ classMaps = NoClassMaps
    /\ NoTile

NextGroup == \E list \in GroupLists : renderGroups(list)

SpecGroup == InitGroup /\ [][NextGroup]_vars

\* Styling: a styler is made from three class maps, then slots are looked up.
InitStyler ==
    /\ Unmounted
    /\ hasOnToggle = FALSE
    /\ participantList = <<>>
    /\ localPeerRole \in {l \in LocalRoles : ~l.present}
    /\ rolesMap = <<>>
    /\ roles = <<>>
    /\ classMaps \in [default : ClassMapsOver(DefaultValues),
                       custom : ClassMapsOver(CustomValues),
                       caller : ClassMapsOver(CallerValues)]
    /\ NoTile

NextStyler ==
    \/ \E s \in LookupSlots : stylerLookup(s)
    \/ \E given \in BOOLEAN, s \in LookupSlots : ParticipantInListLookup(given, s)

SpecStyler == InitStyler /\ [][NextStyler]_vars

\* Video tile: a tile is rendered with some props, then with other props.
InitTile ==
    /\ Unmounted
    /\ hasOnToggle = FALSE
    /\ participantList = <<>>
    /\ localPeerRole \in {l \in LocalRoles : ~l.present}
    /\ rolesMap = <<>>
    /\ roles = <<>>
    /\ classMaps = NoClassMaps
    /\ tileProps \in VideoTileProps
    /\ boxShadow = Video(tileProps)
    /\ controlsProps = VideoTileControls(tileProps)

NextTile == \E p \in VideoTileProps : VideoTile(p)

SpecTile == InitTile /\ [][NextTile]_vars

\* ================================================================ claims
\* The early return's condition, written out from lines 129-133.
Permitted == localPeerRole.present /\ localPeerRole.changeRole
SaveStep == lastOp' = "handleSaveSettings"
SameRole == selectedPeer.roleName = Role(selectedRole)

\* C1: a click on Confirm with no peer selected, or no target role chosen, or
\* without the changeRole permission issues no changeRole call, shows no
\* toast and leaves selectedPeer, selectedRole, forceChange and the dialog's
\* open state as they were; without the permission the select is disabled.
C1_SaveIsNoOpUnlessAllThree ==
    [][ (SaveStep /\ (selectedPeer = NullPeer \/ selectedRole = "" \/ ~Permitted))
          => /\ inflight' = inflight
             /\ toastCalls' = <<>>
             /\ UNCHANGED <<selectedPeer, selectedRole, forceChange>>
             /\ DialogOpen' = DialogOpen
             /\ (~Permitted => SelectDisabled /\ SelectDisabled') ]_vars

\* C1 witness: Confirm was clicked in an open dialog with a role chosen and
\* no permission, and the dialog is still open.
C1_Witness ==
    /\ lastOp = "handleSaveSettings"
    /\ DialogOpen
    /\ selectedRole = "guest"
    /\ selectedPeer.roleName = Role("host")
    /\ ~Permitted
    /\ inflight = EmptyBag

\* C2: a click on Confirm with a selected peer, the permission and a chosen
\* role that differs from the selected peer's role issues exactly one
\* changeRole call, with (selected peer's id, chosen role, forceChange); when
\* a call resolves the dialog is closed.
C2_SaveIssuesOneCall ==
    [][ /\ (SaveStep /\ selectedPeer # NullPeer /\ selectedRole # "" /\ Permitted
              /\ ~SameRole)
           => inflight' = inflight (+) SetToBag({[peerId |-> selectedPeer.id,
                                                  role |-> selectedRole,
                                                  force |-> forceChange]})
        /\ (lastOp' = "changeRoleResolved")
           => (selectedPeer' = NullPeer /\ ~DialogOpen'
               /\ BagCardinality(inflight') = BagCardinality(inflight) - 1) ]_vars

\* C2 witness: Confirm has just issued a call carrying a set skip flag.
C2_Witness ==
    /\ lastOp = "handleSaveSettings"
    /\ DialogOpen
    /\ forceChange
    /\ BagIn([peerId |-> selectedPeer.id, role |-> selectedRole, force |-> TRUE],
             inflight)

\* No call of the bag after the step that was not in the bag before it.
NoNewCall ==
    \A r \in BagToSet(inflight') : CopiesIn(r, inflight') <= CopiesIn(r, inflight)

\* C3: when a changeRole call is rejected, the rejection's message is toasted
\* exactly once, the dialog is reset (no peer selected, forceChange false), no
\* changeRole call is issued again and the handler's promise is not rejected.
C3_RejectionToastedAndDialogReset ==
    [][ (lastOp' = "changeRoleRejected")
          => /\ toastCalls' = <<lastArg'[2]>>
             /\ selectedPeer' = NullPeer
             /\ forceChange' = FALSE
             /\ NoNewCall
             /\ BagCardinality(inflight') = BagCardinality(inflight) - 1
             /\ ~propagated' ]_vars

\* C3 witness: a call was rejected with message e2, e2 was toasted once and
\* the dialog is closed.
C3_Witness ==
    /\ lastOp = "changeRoleRejected"
    /\ lastArg[2] = "e2"
    /\ toastCalls = <<"e2">>
    /\ ~DialogOpen

\* C4: a click on Confirm with a selected peer, the permission and a chosen
\* role equal to the selected peer's role issues no changeRole call and
\* closes the dialog.
C4_SameRoleClosesWithoutCall ==
    [][ (SaveStep /\ selectedPeer # NullPeer /\ selectedRole # "" /\ Permitted
           /\ SameRole)
          => /\ inflight' = inflight
             /\ toastCalls' = <<>>
             /\ selectedPeer' = NullPeer
             /\ ~DialogOpen' ]_vars

\* C4 witness: Confirm ran for peer a with the permission and a chosen role,
\* no call is pending and the dialog is closed.
C4_Witness ==
    /\ lastOp = "handleSaveSettings"
    /\ lastArg = <<"a">>
    /\ selectedRole # ""
    /\ Permitted
    /\ ~DialogOpen
    /\ inflight = EmptyBag

\* C5: with an onToggle callback, every step calls onToggle exactly once with
\* the new value when listOpen changes, and not at all when it does not.
C5_OnToggleOncePerTransition ==
    [][ hasOnToggle =>
          onToggleCalls' = IF listOpen' # listOpen THEN <<listOpen'>> ELSE <<>> ]_vars

\* A step that completes a role-change submission: the call resolved, was
\* rejected, or was skipped because the role is unchanged.
SubmissionCompletes ==
    \/ lastOp' = "changeRoleResolved"
    \/ lastOp' = "changeRoleRejected"
    \/ (SaveStep /\ selectedPeer # NullPeer /\ selectedRole # "" /\ Permitted
          /\ SameRole)

\* C6 as stated: whenever the list is open and a submission completes, the
\* list is closed afterwards.
C6_ListClosedOnCompletion ==
    [][ (listOpen /\ SubmissionCompletes) => ~listOpen' ]_vars

\* C6 amended: a completed submission closes the dialog and leaves listOpen as
\* it was; the list goes from open to closed only by handleClick (toggle
\* click) and handleClose (click outside).
C6_ListClosedOnlyByToggleOrClickAway ==
    [][ /\ SubmissionCompletes => (listOpen' = listOpen /\ ~DialogOpen')
        /\ (SaveStep => listOpen' = listOpen)
        /\ (listOpen /\ ~listOpen') => lastOp' \in {"handleClick", "handleClose"} ]_vars

\* C6 witness: a call has resolved, the dialog is closed and the list is open.
C6_Witness ==
    /\ lastOp = "changeRoleResolved"
    /\ ~DialogOpen
    /\ listOpen

C8_ClosedDialogKeepsNothing ==
    [][ (DialogOpen /\ ~DialogOpen') => (selectedRole' = "" /\ forceChange' = FALSE) ]_vars

\* C8 amended: every closing path resets forceChange, so it is false while
\* the dialog is closed; selectedRole keeps its value while the dialog is
\* closed and is overwritten when the dialog opens, so a dialog opened from
\* the closed state starts with its peer's role name (or empty) and
\* forceChange false.
C8_FlagResetOnCloseRoleResetOnOpen ==
    [][ /\ ~DialogOpen' => forceChange' = FALSE
        /\ (DialogOpen /\ ~DialogOpen') => selectedRole' = selectedRole
        /\ (~DialogOpen /\ DialogOpen')
             => /\ forceChange' = FALSE
                /\ selectedRole' = (IF selectedPeer'.roleName.defined
                                    THEN selectedPeer'.roleName.name ELSE "") ]_vars

\* C8 witness: a resolved call has closed the dialog; the role chosen in that
\* session is still in selectedRole and the skip flag is false.
C8_Witness ==
    /\ ~DialogOpen
    /\ lastOp = "changeRoleResolved"
    /\ selectedRole = "guest"
    /\ forceChange = FALSE

\* The role values of the list and, for a role value, its peers in list order.
RolesPresent == { participantList[i].roleName : i \in 1..Len(participantList) }
PeersWithRole(v) == SelectSeq(participantList, LAMBDA p : p.roleName = v)

\* C9: the groups are one per distinct role value of the list, each group
\* holds the peers of its role in list order, exactly one group is headed
\* "Unknown" when some peer has no role name and none otherwise, and every
\* header shows the number of its group's members.
C9_GroupsByRoleWithUnknown ==
    /\ Cardinality(DOMAIN rolesMap) = Cardinality(RolesPresent)
    /\ \A v \in RolesPresent :
          \E k \in DOMAIN rolesMap : rolesMap[k] = PeersWithRole(v)
    /\ Cardinality({ k \in DOMAIN rolesMap : HeaderLabel(k) = "Unknown" })
          = (IF UndefinedRole \in RolesPresent THEN 1 ELSE 0)
    /\ \A i \in 1..Len(roles) :
          /\ roles[i] \in DOMAIN rolesMap
          /\ HeaderCount(roles[i]) = Len(rolesMap[roles[i]])
          /\ HeaderCount(roles[i]) > 0

\* The class the three maps give slot s, by precedence.
ClassByPrecedence(maps, s) ==
    IF s \in DOMAIN maps.caller THEN maps.caller[s]
    ELSE IF s \in DOMAIN maps.custom THEN maps.custom[s]
    ELSE IF s \in DOMAIN maps.default THEN maps.default[s]
    ELSE ""

C11_NoGuardAgainstSecondSave ==
    [][ (SaveStep /\ selectedPeer # NullPeer /\ selectedRole # "" /\ Permitted
           /\ ~SameRole)
          => /\ UNCHANGED <<selectedPeer, selectedRole, forceChange>>
             /\ DialogOpen'
             /\ ~SelectDisabled'
             /\ BagCardinality(inflight') = BagCardinality(inflight) + 1
             /\ Cardinality({ r \in BagToSet(inflight') : r.peerId = selectedPeer.id })
                  >= 1
             /\ \A r \in BagToSet(inflight) :
                   CopiesIn(r, inflight') >= CopiesIn(r, inflight)
             /\ LET call == [peerId |-> selectedPeer.id, role |-> selectedRole,
                             force |-> forceChange]
                IN CopiesIn(call, inflight') = CopiesIn(call, inflight) + 1 ]_vars

\* C11 witness: after a second click on Confirm two identical calls for the
\* selected peer are pending and the dialog is still open.
C11_Witness ==
    /\ lastOp = "handleSaveSettings"
    /\ DialogOpen
    /\ lastArg = <<selectedPeer.id>>
    /\ CopiesIn([peerId |-> selectedPeer.id, role |-> selectedRole,
                 force |-> forceChange], inflight) = 2

\* The tile's audio props as the render sees them, and what it rendered.
tileMuted == isAudioMutedOf(tileProps)
tileShow == showAudioLevelOf(tileProps)
tileType == audioLevelDisplayTypeOf(tileProps)
GlowRendered == boxShadow.set
OverlayLevelActive == controlsProps.rendered /\ controlsProps.showAudioLevel
LevelForwarded ==
    /\ controlsProps.rendered
    /\ controlsProps.audioLevel = tileProps.audioLevel
    /\ controlsProps.audioLevelDisplayType = tileType

\* C12 as stated: for every combination of the four props, a glow is rendered
\* only for display type 'border' (unmuted, showAudioLevel set, level
\* non-zero); for any other display type there is no glow and the tile's own
\* controls get the level with showAudioLevel enabled; the glow and the
\* overlay level display are never both active.
C12_GlowOnlyForBorderElseOverlayEnabled ==
    /\ GlowRendered =>
          tileType = "border" /\ ~tileMuted /\ tileShow /\ Truthy(tileProps.audioLevel)
    /\ (tileType # "border" /\ ~tileProps.controlsComponent) =>
          ~GlowRendered /\ LevelForwarded /\ controlsProps.showAudioLevel
    /\ ~(GlowRendered /\ OverlayLevelActive)

\* C12 amended: a glow is rendered exactly for display type 'border' with an
\* unmuted stream, showAudioLevel set and a non-zero level, its blurs 0.12 and
\* 0.8 times the level; for any other display type there is no glow and the
\* tile's own controls get the level with showAudioLevel equal to the tile's
\* showAudioLevel; for 'border' they get showAudioLevel false; with a
\* controlsComponent the tile forwards nothing; the glow and the overlay level
\* display are never both active.
C12_GlowOnlyForBorderElseOverlayAsRequested ==
    /\ GlowRendered <=>
          (tileType = "border" /\ ~tileMuted /\ tileShow /\ Truthy(tileProps.audioLevel))
    /\ GlowRendered =>
          /\ boxShadow.inner = 12 * tileProps.audioLevel.value
          /\ boxShadow.outer = 80 * tileProps.audioLevel.value
    /\ ~tileProps.controlsComponent =>
          /\ LevelForwarded
          /\ controlsProps.showAudioLevel = (tileShow /\ tileType # "border")
    /\ tileProps.controlsComponent => ~controlsProps.rendered
    /\ ~(GlowRendered /\ OverlayLevelActive)

\* C12 witness: a tile rendered with an inline display type, showAudioLevel set
\* and a level: no glow, and its controls get the level with showAudioLevel set.
C12_Witness ==
    /\ lastOp = "VideoTile"
    /\ tileProps.audioLevelDisplayType = Given("inline-wave")
    /\ tileProps.showAudioLevel = Given(TRUE)
    /\ tileProps.audioLevel = Given(50)
    /\ ~tileMuted
    /\ ~GlowRendered
    /\ OverlayLevelActive
    /\ controlsProps.audioLevel = Given(50)

\* A pending call settles in this step.
SettleStep == lastOp' \in {"changeRoleResolved", "changeRoleRejected"}

\* C13: a settling call clears the selected peer and the skip-confirmation
\* flag whatever the dialog shows at that moment, also when it is open for a
\* peer other than the one the call was made for; role and list are kept.
C13_SettlementResetsWhateverIsOpen ==
    [][ SettleStep
          => /\ selectedPeer' = NullPeer
             /\ forceChange' = FALSE
             /\ ~DialogOpen'
             /\ UNCHANGED <<selectedRole, listOpen>>
             /\ lastArg'[3] = selectedPeer.id
             /\ lastArg'[4] = (IF forceChange THEN "force" ELSE "")
             /\ BagCardinality(inflight') = BagCardinality(inflight) - 1 ]_vars

\* C13 witness: the only pending call, made for one peer, has settled while
\* the dialog was open for another peer with the flag set; the dialog is
\* closed and the flag reset.
C13_Witness ==
    /\ lastOp \in {"changeRoleResolved", "changeRoleRejected"}
    /\ lastArg[3] \notin {NullPeer.id, lastArg[1]}
    /\ lastArg[4] = "force"
    /\ inflight = EmptyBag
    /\ ~DialogOpen
    /\ ~forceChange

====
